---------------------------- MODULE Spec2Model ----------------------------
(***************************************************************************)
(* Model of perf/sawtooth/sawtooth_workload/src/batch_gen.rs: the          *)
(* length-delimited message source, the SignedBatchProducer and the        *)
(* generate_signed_batches drive loop.                                     *)
(*                                                                         *)
(* Byte streams are sequences of naturals in 0..255.  A stream position is *)
(* the number of bytes already consumed, so the next byte of b at position *)
(* p is b[p + 1].                                                          *)
(***************************************************************************)
EXTENDS Integers, Sequences, FiniteSets, TLC

(***************************************************************************)
(* Bounds of the model.                                                    *)
(***************************************************************************)
\* most well-formed transaction records in the input stream
MaxTxns == 3
\* largest max_batch_size / max_msgs ever passed
MaxBatchSize == 3
\* most calls a client makes on a producer or a source
MaxCalls == 5

(***************************************************************************)
(* Messages.  A Transaction has the three fields of transaction.proto; a   *)
(* Batch has header, header_signature and transactions (batch.proto).      *)
(***************************************************************************)
Txn(h, s, p) == [header |-> h, header_signature |-> s, payload |-> p]

DefaultTxn == Txn(<<>>, <<>>, <<>>)

\* make_txn(sig) of the tests, with a one-byte header standing for the
\* serialized TransactionHeader: payload = sig.as_bytes()
make_txn(sig) == Txn(<<9>>, sig, sig)

\* the transactions the input streams are built from: one made by make_txn,
\* one with only a signature, and the default (all fields empty) message
TxnPool == {make_txn(<<97>>), Txn(<<>>, <<98>>, <<>>), DefaultTxn}

NoBatch == [header |-> <<>>, header_signature |-> <<>>, transactions |-> <<>>]

(***************************************************************************)
(* Wire format: varints and length-delimited fields.                       *)
(***************************************************************************)
RECURSIVE Varint(_)
Varint(v) ==
    IF v < 128 THEN <<v>> ELSE <<(v % 128) + 128>> \o Varint(v \div 128)

\* a singular bytes/string field of proto3: omitted when empty
Field(tag, v) == IF v = <<>> THEN <<>> ELSE <<tag>> \o Varint(Len(v)) \o v

\* an element of a repeated bytes/string/message field: always written
Element(tag, v) == <<tag>> \o Varint(Len(v)) \o v

\* Transaction::write_to_bytes
EncodeTxn(t) ==
    Field(10, t.header) \o Field(18, t.header_signature) \o Field(26, t.payload)

\* Message::write_length_delimited_to_writer: varint length, then the payload
LengthDelimited(bytes) == Varint(Len(bytes)) \o bytes

\* write_txn_with_sig applied to each transaction of a sequence
RECURSIVE EncodeStream(_)
EncodeStream(ts) ==
    IF ts = <<>> THEN <<>>
    ELSE LengthDelimited(EncodeTxn(Head(ts))) \o EncodeStream(Tail(ts))

SubBytes(b, from, n) == [i \in 1..n |-> b[from + i]]

\* CodedInputStream::eof
Eof(b, p) == p >= Len(b)

\* CodedInputStream::read_raw_varint32: at most 10 bytes, low 32 bits kept
RECURSIVE ReadVarintFrom(_, _, _, _, _)
ReadVarintFrom(b, p, mult, acc, cnt) ==
    IF cnt = 10 THEN [ok |-> FALSE, val |-> 0, pos |-> p, cause |-> "WireError"]
    ELSE IF Eof(b, p)
         THEN [ok |-> FALSE, val |-> 0, pos |-> p, cause |-> "UnexpectedEof"]
    ELSE IF b[p + 1] < 128
         THEN [ok |-> TRUE, val |-> acc + b[p + 1] * mult, pos |-> p + 1, cause |-> ""]
    ELSE ReadVarintFrom(b, p + 1, mult * 128, acc + (b[p + 1] - 128) * mult, cnt + 1)

read_raw_varint32(b, p) == ReadVarintFrom(b, p, 1, 0, 0)

\* CodedInputStream::read_raw_bytes: exactly n bytes, or an error at the end
\* of the stream with everything that was left consumed
read_raw_bytes(b, p, n) ==
    IF p + n > Len(b)
    THEN [ok |-> FALSE, bytes |-> <<>>, pos |-> Len(b), cause |-> "UnexpectedEof"]
    ELSE [ok |-> TRUE, bytes |-> SubBytes(b, p, n), pos |-> p + n, cause |-> ""]

\* one length-delimited field value at p: its length, then its bytes
ReadField(b, p) ==
    LET l == read_raw_varint32(b, p) IN
    IF ~l.ok THEN [ok |-> FALSE, bytes |-> <<>>, pos |-> l.pos, cause |-> l.cause]
    ELSE read_raw_bytes(b, l.pos, l.val)

\* Transaction::merge_from: fields 1..3, all length-delimited; a later
\* occurrence of a singular field replaces an earlier one.  Any other tag is
\* rejected: the streams of this model carry no unknown fields, and the tags
\* they carry besides 10, 18 and 26 have an invalid wire type.
RECURSIVE MergeTxn(_, _, _)
MergeTxn(buf, p, t) ==
    IF Eof(buf, p) THEN [ok |-> TRUE, msg |-> t, cause |-> ""]
    ELSE LET tag == read_raw_varint32(buf, p) IN
         IF ~tag.ok THEN [ok |-> FALSE, msg |-> DefaultTxn, cause |-> tag.cause]
         ELSE IF tag.val \notin {10, 18, 26}
              THEN [ok |-> FALSE, msg |-> DefaultTxn, cause |-> "WireError"]
         ELSE LET f == ReadField(buf, tag.pos) IN
              IF ~f.ok THEN [ok |-> FALSE, msg |-> DefaultTxn, cause |-> f.cause]
              ELSE MergeTxn(buf, f.pos,
                     CASE tag.val = 10 -> [t EXCEPT !.header = f.bytes]
                       [] tag.val = 18 -> [t EXCEPT !.header_signature = f.bytes]
                       [] tag.val = 26 -> [t EXCEPT !.payload = f.bytes])

\* protobuf::parse_from_bytes::<Transaction>
parse_from_bytes(buf) == MergeTxn(buf, 0, DefaultTxn)


(***************************************************************************)
(* LengthDelimitedMessageSource::next                                      *)
(***************************************************************************)
\* the loop `for _ in 0..max_msgs`, n iterations left, from position p.  An
\* error ends the call without the messages decoded so far.
RECURSIVE NextLoop_keepsPartial(_, _, _, _)
NextLoop_keepsPartial(b, p, n, results) ==
    IF n = 0 \/ Eof(b, p)
    THEN [ok |-> TRUE, msgs |-> results, pos |-> p, cause |-> ""]
    ELSE LET next_len == read_raw_varint32(b, p)
             buf == read_raw_bytes(b, next_len.pos, next_len.val)
             msg == parse_from_bytes(buf.bytes)
         IN IF ~next_len.ok
            THEN [ok |-> results # <<>>, msgs |-> results, pos |-> next_len.pos,
                  cause |-> next_len.cause]
            ELSE IF ~buf.ok \/ ~msg.ok
            THEN [ok |-> results # <<>>, msgs |-> results, pos |-> buf.pos,
                  cause |-> IF buf.ok THEN msg.cause ELSE buf.cause]
            ELSE NextLoop_keepsPartial(b, buf.pos, n - 1, Append(results, msg.msg))

RECURSIVE NextLoop(_, _, _, _)
NextLoop(b, p, n, results) ==
    IF n = 0 \/ Eof(b, p)
    THEN [ok |-> TRUE, msgs |-> results, pos |-> p, cause |-> ""]
    ELSE LET next_len == read_raw_varint32(b, p) IN
         IF ~next_len.ok
         THEN [ok |-> FALSE, msgs |-> <<>>, pos |-> next_len.pos, cause |-> next_len.cause]
         ELSE LET buf == read_raw_bytes(b, next_len.pos, next_len.val) IN
              IF ~buf.ok
              THEN [ok |-> FALSE, msgs |-> <<>>, pos |-> buf.pos, cause |-> buf.cause]
              ELSE LET msg == parse_from_bytes(buf.bytes) IN
                   IF ~msg.ok
                   THEN [ok |-> FALSE, msgs |-> <<>>, pos |-> buf.pos, cause |-> msg.cause]
                   ELSE NextLoop(b, buf.pos, n - 1, Append(results, msg.msg))

\* next(max_msgs) on the source whose stream is b, read up to position p
Next_offByOne(b, p, max_msgs) == NextLoop(b, p, max_msgs + 1, <<>>)

Next_rewinds(b, p, max_msgs) == NextLoop(b, 0, max_msgs, <<>>)

next(b, p, max_msgs) == NextLoop(b, p, max_msgs, <<>>)

(***************************************************************************)
(* SignedBatchProducer::next_batch                                         *)
(***************************************************************************)
\* BatchingError::MessageError(err)
MessageError(cause) == [variant |-> "MessageError", cause |-> cause]

NoError == [variant |-> "", cause |-> ""]

\* Transaction::take_header_signature: the value, and the message left behind
take_header_signature(txn) ==
    [value |-> txn.header_signature,
     txn   |-> [txn EXCEPT !.header_signature = <<>>]]

\* a sequence in reverse order (used by the reversed variants below)
Reverse(s) == [i \in 1..Len(s) |-> s[Len(s) + 1 - i]]

\* txns.iter().cloned().map(|mut txn| txn.take_header_signature()).collect()
TxnIds_reversed(txns) ==
    [i \in 1..Len(txns) |-> take_header_signature(txns[Len(txns) + 1 - i]).value]

TxnIds(txns) == [i \in 1..Len(txns) |-> take_header_signature(txns[i]).value]

\* BatchHeader::write_to_bytes: signer_pubkey = 1, repeated transaction_ids = 2
RECURSIVE EncodeIds(_)
EncodeIds(ids) ==
    IF ids = <<>> THEN <<>> ELSE Element(18, Head(ids)) \o EncodeIds(Tail(ids))

EncodeBatchHeader(h) == Field(10, h.signer_pubkey) \o EncodeIds(h.transaction_ids)

\* protobuf::parse_from_bytes::<BatchHeader>, as the tests read a batch's header
RECURSIVE MergeBatchHeader(_, _, _)
MergeBatchHeader(buf, p, h) ==
    IF Eof(buf, p) THEN [ok |-> TRUE, msg |-> h]
    ELSE LET tag == read_raw_varint32(buf, p) IN
         IF ~tag.ok \/ tag.val \notin {10, 18} THEN [ok |-> FALSE, msg |-> h]
         ELSE LET f == ReadField(buf, tag.pos) IN
              IF ~f.ok THEN [ok |-> FALSE, msg |-> h]
              ELSE MergeBatchHeader(buf, f.pos,
                     IF tag.val = 10
                     THEN [h EXCEPT !.signer_pubkey = f.bytes]
                     ELSE [h EXCEPT !.transaction_ids = Append(@, f.bytes)])

ParseBatchHeader(buf) ==
    MergeBatchHeader(buf, 0, [signer_pubkey |-> <<>>, transaction_ids |-> <<>>])

\* lines 167-175: the batch built from a non-empty pull
BuildBatch_reversed(txns) ==
    [header |-> EncodeBatchHeader([signer_pubkey |-> <<>>,
                                   transaction_ids |-> TxnIds(Reverse(txns))]),
     header_signature |-> <<>>,
     transactions |-> Reverse(txns)]

BuildBatch_noClone(txns) ==
    [header |-> EncodeBatchHeader([signer_pubkey |-> <<>>,
                                   transaction_ids |-> TxnIds(txns)]),
     header_signature |-> <<>>,
     transactions |-> [i \in 1..Len(txns) |-> take_header_signature(txns[i]).txn]]

BuildBatch_holdsBackLast(txns) ==
    LET kept == IF Len(txns) > 1 THEN SubSeq(txns, 1, Len(txns) - 1) ELSE txns IN
    [header |-> EncodeBatchHeader([signer_pubkey |-> <<>>,
                                   transaction_ids |-> TxnIds(kept)]),
     header_signature |-> <<>>,
     transactions |-> kept]

BuildBatch(txns) ==
    [header |-> EncodeBatchHeader([signer_pubkey |-> <<>>,
                                   transaction_ids |-> TxnIds(txns)]),
     header_signature |-> <<>>,
     transactions |-> txns]

\* `if txns.len() == 0 { return Ok(None); }`
Exhausted_never(txns) == FALSE

Exhausted(txns) == Len(txns) = 0

\* the BatchResult of next_batch on the stream b read up to p, and the
\* position the call leaves the source at
OnPull_errorIsNone(r) ==
    IF ~r.ok \/ Exhausted(r.msgs)
    THEN [kind |-> "None", batch |-> NoBatch, err |-> NoError, pos |-> r.pos]
    ELSE [kind |-> "Some", batch |-> BuildBatch(r.msgs), err |-> NoError, pos |-> r.pos]

OnPull_signingError(r) ==
    IF ~r.ok
    THEN [kind |-> "Err", batch |-> NoBatch,
          err |-> [variant |-> "SigningError", cause |-> ""], pos |-> r.pos]
    ELSE IF Exhausted(r.msgs)
    THEN [kind |-> "None", batch |-> NoBatch, err |-> NoError, pos |-> r.pos]
    ELSE [kind |-> "Some", batch |-> BuildBatch(r.msgs), err |-> NoError, pos |-> r.pos]

OnPull(r) ==
    IF ~r.ok
    THEN [kind |-> "Err", batch |-> NoBatch, err |-> MessageError(r.cause), pos |-> r.pos]
    ELSE IF Exhausted(r.msgs)
    THEN [kind |-> "None", batch |-> NoBatch, err |-> NoError, pos |-> r.pos]
    ELSE [kind |-> "Some", batch |-> BuildBatch(r.msgs), err |-> NoError, pos |-> r.pos]

next_batch(b, p, max_batch_size) == OnPull(next(b, p, max_batch_size))

\* Batch::write_to_bytes: header = 1, header_signature = 2, transactions = 3
RECURSIVE EncodeTxns(_)
EncodeTxns(ts) ==
    IF ts = <<>> THEN <<>>
    ELSE Element(26, EncodeTxn(Head(ts))) \o EncodeTxns(Tail(ts))

EncodeBatch(batch) ==
    Field(10, batch.header) \o Field(18, batch.header_signature)
        \o EncodeTxns(batch.transactions)

(***************************************************************************)
(* LengthDelimitedMessageSource<Batch>: the same reader over Batch         *)
(* messages, as tests::BatchSource reads the writer back.                  *)
(***************************************************************************)
\* the repeated field `transactions` of a Batch: each element is decoded as
\* a Transaction
ParseElement(bytes) == parse_from_bytes(bytes)

\* Batch::merge_from: header = 1, header_signature = 2, transactions = 3
RECURSIVE MergeBatch(_, _, _)
MergeBatch(buf, p, batch) ==
    IF Eof(buf, p) THEN [ok |-> TRUE, msg |-> batch, cause |-> ""]
    ELSE LET tag == read_raw_varint32(buf, p) IN
         IF ~tag.ok THEN [ok |-> FALSE, msg |-> NoBatch, cause |-> tag.cause]
         ELSE IF tag.val \notin {10, 18, 26}
              THEN [ok |-> FALSE, msg |-> NoBatch, cause |-> "WireError"]
         ELSE LET f == ReadField(buf, tag.pos) IN
              IF ~f.ok THEN [ok |-> FALSE, msg |-> NoBatch, cause |-> f.cause]
              ELSE IF tag.val = 26 /\ ~ParseElement(f.bytes).ok
                   THEN [ok |-> FALSE, msg |-> NoBatch,
                         cause |-> ParseElement(f.bytes).cause]
              ELSE MergeBatch(buf, f.pos,
                     CASE tag.val = 10 -> [batch EXCEPT !.header = f.bytes]
                       [] tag.val = 18 -> [batch EXCEPT !.header_signature = f.bytes]
                       [] tag.val = 26 ->
                            [batch EXCEPT !.transactions =
                                              Append(@, ParseElement(f.bytes).msg)])

\* protobuf::parse_from_bytes::<Batch>
ParseBatch(buf) == MergeBatch(buf, 0, NoBatch)

\* the loop of next with T = Batch
RECURSIVE NextBatchLoop(_, _, _, _)
NextBatchLoop(b, p, n, results) ==
    IF n = 0 \/ Eof(b, p)
    THEN [ok |-> TRUE, msgs |-> results, pos |-> p, cause |-> ""]
    ELSE LET next_len == read_raw_varint32(b, p) IN
         IF ~next_len.ok
         THEN [ok |-> FALSE, msgs |-> <<>>, pos |-> next_len.pos, cause |-> next_len.cause]
         ELSE LET buf == read_raw_bytes(b, next_len.pos, next_len.val) IN
              IF ~buf.ok
              THEN [ok |-> FALSE, msgs |-> <<>>, pos |-> buf.pos, cause |-> buf.cause]
              ELSE LET msg == ParseBatch(buf.bytes) IN
                   IF ~msg.ok
                   THEN [ok |-> FALSE, msgs |-> <<>>, pos |-> buf.pos, cause |-> msg.cause]
                   ELSE NextBatchLoop(b, buf.pos, n - 1, Append(results, msg.msg))

\* BatchSource::next(max_msgs)
next_batches(b, p, max_msgs) == NextBatchLoop(b, p, max_msgs, <<>>)

(***************************************************************************)
(* State.                                                                  *)
(*   mode            who drives: "generate" is a run of                    *)
(*                   generate_signed_batches, "producer" a client calling  *)
(*                   next_batch, "source" a client calling next            *)
(*   input           the bytes behind the reader                           *)
(*   records, tail   what input was built from: the well-formed records'   *)
(*                   transactions, and the bytes that follow them          *)
(*   max_batch_size  the producer's field                                  *)
(*   write_fail_at   the writer's behaviour: the number of the write that  *)
(*                   fails, 0 when every write succeeds                    *)
(*   pos             bytes the source has consumed                         *)
(*   pc, res, ret    the driver's position in its loop, the BatchResult it *)
(*                   matches on, and what it returned                      *)
(*   calls, log      next_batch / next calls made, and their outcomes      *)
(*   emitted         the batches returned as Ok(Some(batch))               *)
(*   writer          the bytes in the writer                               *)
(*   written, writes the batches whose write completed; writes attempted   *)
(*   last_next       the latest call of next: its max_msgs, the position   *)
(*                   it began at, and its result                           *)
(*   delivered       every message next has returned, in order             *)
(***************************************************************************)
VARIABLES mode, input, records, tail, max_batch_size, write_fail_at,
          pos, pc, res, ret, calls, log, emitted,
          writer, written, writes, last_next, delivered

vars == <<mode, input, records, tail, max_batch_size, write_fail_at,
          pos, pc, res, ret, calls, log, emitted,
          writer, written, writes, last_next, delivered>>

\* tails whose record declares more bytes than the stream still holds
TruncatedTails == {<<2>>, <<3, 18>>}

\* what may follow the well-formed records: nothing; a truncated record; a
\* length prefix cut inside the varint; a record whose payload does not
\* decode (tag 15 has wire type 7), alone or followed by an empty record
Tails == {<<>>} \cup TruncatedTails \cup {<<128>>, <<1, 15>>, <<1, 15, 0>>}

NoResult == [kind |-> "Init", batch |-> NoBatch, err |-> NoError]

NoCall == [max_msgs |-> 0, before |-> 0, ok |-> TRUE, msgs |-> <<>>]

Init ==
    /\ mode \in {"generate", "producer", "source"}
    /\ \E n \in 0..MaxTxns : records \in [1..n -> TxnPool]
    /\ tail \in Tails
    /\ input = EncodeStream(records) \o tail
    /\ max_batch_size \in (IF mode = "source" THEN {0} ELSE 0..MaxBatchSize)
    /\ write_fail_at \in (IF mode = "generate" THEN 0..MaxTxns ELSE {0})
    /\ pos = 0
    /\ pc = "call"
    /\ res = NoResult
    /\ ret = [kind |-> "Running", err |-> NoError]
    /\ calls = 0
    /\ log = <<>>
    /\ emitted = <<>>
    /\ writer = <<>>
    /\ written = <<>>
    /\ writes = 0
    /\ last_next = NoCall
    /\ delivered = <<>>

\* `producer.next_batch()`: the call, its result and its effect on the source
CallNextBatch ==
    LET r == next_batch(input, pos, max_batch_size) IN
    /\ res' = [kind |-> r.kind, batch |-> r.batch, err |-> r.err]
    /\ pos' = r.pos
    /\ calls' = calls + 1
    /\ log' = Append(log, r.kind)
    /\ emitted' = IF r.kind = "Some" THEN Append(emitted, r.batch) ELSE emitted

\* generate_signed_batches, `match producer.next_batch()`
GenCall ==
    /\ mode = "generate" /\ pc = "call"
    /\ CallNextBatch
    /\ pc' = "match"
    /\ UNCHANGED <<mode, input, records, tail, max_batch_size, write_fail_at,
                   ret, writer, written, writes, last_next, delivered>>

\* arm Ok(Some(batch)), the write succeeds: the loop goes round
GenWriteOk_noPrefix ==
    /\ mode = "generate" /\ pc = "match" /\ res.kind = "Some"
    /\ write_fail_at # writes + 1
    /\ writer' = writer \o EncodeBatch(res.batch)
    /\ written' = Append(written, res.batch)
    /\ writes' = writes + 1
    /\ pc' = "call"
    /\ UNCHANGED <<mode, input, records, tail, max_batch_size, write_fail_at,
                   pos, res, ret, calls, log, emitted, last_next, delivered>>

GenWriteOk ==
    /\ mode = "generate" /\ pc = "match" /\ res.kind = "Some"
    /\ write_fail_at # writes + 1
    /\ writer' = writer \o LengthDelimited(EncodeBatch(res.batch))
    /\ written' = Append(written, res.batch)
    /\ writes' = writes + 1
    /\ pc' = "call"
    /\ UNCHANGED <<mode, input, records, tail, max_batch_size, write_fail_at,
                   pos, res, ret, calls, log, emitted, last_next, delivered>>

\* arm Ok(Some(batch)), the write fails after any proper prefix of the
\* record reached the writer: return Err(BatchingError::MessageError(err))
GenWriteErr_rollsBack ==
    /\ mode = "generate" /\ pc = "match" /\ res.kind = "Some"
    /\ write_fail_at = writes + 1
    /\ writer' = <<>>
    /\ writes' = writes + 1
    /\ ret' = [kind |-> "Err", err |-> MessageError("IoError")]
    /\ pc' = "done"
    /\ UNCHANGED <<mode, input, records, tail, max_batch_size, write_fail_at,
                   pos, res, calls, log, emitted, written, last_next, delivered>>

GenWriteErr_continues ==
    /\ mode = "generate" /\ pc = "match" /\ res.kind = "Some"
    /\ write_fail_at = writes + 1
    /\ \E n \in 0..(Len(LengthDelimited(EncodeBatch(res.batch))) - 1) :
          writer' = writer \o SubSeq(LengthDelimited(EncodeBatch(res.batch)), 1, n)
    /\ writes' = writes + 1
    /\ pc' = "call"
    /\ UNCHANGED <<mode, input, records, tail, max_batch_size, write_fail_at,
                   pos, res, ret, calls, log, emitted, written, last_next, delivered>>

GenWriteErr ==
    /\ mode = "generate" /\ pc = "match" /\ res.kind = "Some"
    /\ write_fail_at = writes + 1
    /\ \E n \in 0..(Len(LengthDelimited(EncodeBatch(res.batch))) - 1) :
          writer' = writer \o SubSeq(LengthDelimited(EncodeBatch(res.batch)), 1, n)
    /\ writes' = writes + 1
    /\ ret' = [kind |-> "Err", err |-> MessageError("IoError")]
    /\ pc' = "done"
    /\ UNCHANGED <<mode, input, records, tail, max_batch_size, write_fail_at,
                   pos, res, calls, log, emitted, written, last_next, delivered>>

\* arm Ok(None): break, then Ok(())
GenBreak_continues ==
    /\ mode = "generate" /\ pc = "match" /\ res.kind = "None"
    /\ pc' = "call"
    /\ UNCHANGED <<mode, input, records, tail, max_batch_size, write_fail_at,
                   pos, res, ret, calls, log, emitted, writer, written, writes,
                   last_next, delivered>>

GenBreak ==
    /\ mode = "generate" /\ pc = "match" /\ res.kind = "None"
    /\ ret' = [kind |-> "Ok", err |-> NoError]
    /\ pc' = "done"
    /\ UNCHANGED <<mode, input, records, tail, max_batch_size, write_fail_at,
                   pos, res, calls, log, emitted, writer, written, writes,
                   last_next, delivered>>

\* arm Err(err): return Err(err)
GenErr_skips ==
    /\ mode = "generate" /\ pc = "match" /\ res.kind = "Err"
    /\ pc' = "call"
    /\ UNCHANGED <<mode, input, records, tail, max_batch_size, write_fail_at,
                   pos, res, ret, calls, log, emitted, writer, written, writes,
                   last_next, delivered>>

GenErr ==
    /\ mode = "generate" /\ pc = "match" /\ res.kind = "Err"
    /\ ret' = [kind |-> "Err", err |-> res.err]
    /\ pc' = "done"
    /\ UNCHANGED <<mode, input, records, tail, max_batch_size, write_fail_at,
                   pos, res, calls, log, emitted, writer, written, writes,
                   last_next, delivered>>

\* a client of SignedBatchProducer calls next_batch once more
ProdCall ==
    /\ mode = "producer" /\ calls < MaxCalls
    /\ CallNextBatch
    /\ UNCHANGED <<mode, input, records, tail, max_batch_size, write_fail_at,
                   pc, ret, writer, written, writes, last_next, delivered>>

\* a client of LengthDelimitedMessageSource calls next(max_msgs) once more
SrcNext ==
    /\ mode = "source" /\ calls < MaxCalls
    /\ \E max_msgs \in 0..MaxBatchSize :
          LET r == next(input, pos, max_msgs) IN
          /\ last_next' = [max_msgs |-> max_msgs, before |-> pos,
                           ok |-> r.ok, msgs |-> r.msgs]
          /\ pos' = r.pos
          /\ delivered' = delivered \o r.msgs
    /\ calls' = calls + 1
    /\ UNCHANGED <<mode, input, records, tail, max_batch_size, write_fail_at,
                   pc, res, ret, log, emitted, writer, written, writes>>

Next ==
    \/ GenCall
    \/ GenWriteOk
    \/ GenWriteErr
    \/ GenBreak
    \/ GenErr
    \/ ProdCall
    \/ SrcNext

Spec == Init /\ [][Next]_vars

(***************************************************************************)
(* Vocabulary of the properties.                                           *)
(***************************************************************************)
\* the input is a sequence of well-formed transaction records
WellFormed == tail = <<>>

NumTxns == Len(records)

Min(a, b) == IF a < b THEN a ELSE b

CeilDiv(n, m) == (n + m - 1) \div m

IsPrefix(s, t) == Len(s) <= Len(t) /\ SubSeq(t, 1, Len(s)) = s

Sigs(ts) == [i \in 1..Len(ts) |-> ts[i].header_signature]

\* the transaction_ids a reader of the batch finds in its header
HeaderIds(batch) == ParseBatchHeader(batch.header).msg.transaction_ids

RECURSIVE ConcatTxns(_)
ConcatTxns(batches) ==
    IF batches = <<>> THEN <<>>
    ELSE Head(batches).transactions \o ConcatTxns(Tail(batches))

RECURSIVE ConcatIds(_)
ConcatIds(batches) ==
    IF batches = <<>> THEN <<>>
    ELSE HeaderIds(Head(batches)) \o ConcatIds(Tail(batches))

RECURSIVE EncodeBatches(_)
EncodeBatches(batches) ==
    IF batches = <<>> THEN <<>>
    ELSE LengthDelimited(EncodeBatch(Head(batches))) \o EncodeBatches(Tail(batches))

\* no write to the writer has failed
WritesSucceeded == write_fail_at = 0 \/ writes < write_fail_at

\* the number of whole records of the input that end at or before position p
RecordsBefore(p) ==
    Cardinality({i \in 1..NumTxns : Len(EncodeStream(SubSeq(records, 1, i))) <= p})

\* the records of a well-formed input not yet read at position p
Unread(p) == NumTxns - RecordsBefore(p)

(***************************************************************************)
(* C1  The batches written, concatenated in emission order, are the input. *)
(***************************************************************************)
\* C1 as stated: for every max_batch_size >= 1 and every well-formed input,
\* generate_signed_batches never returns an error, returns Ok(()) when it
\* returns, and then the transactions of the written batches, and the
\* transaction_ids of their headers, concatenated in emission order, are
\* the input's transactions and header signatures.
C1_Original ==
    (mode = "generate" /\ WellFormed /\ max_batch_size >= 1) =>
        /\ ret.kind # "Err"
        /\ pc = "done" =>
              /\ ret.kind = "Ok"
              /\ ConcatTxns(written) = records
              /\ ConcatIds(written) = Sigs(records)

\* C1 amended: the same, provided no write to the writer fails.
C1_OrderPreserved ==
    (mode = "generate" /\ WellFormed /\ max_batch_size >= 1 /\ WritesSucceeded) =>
        /\ ret.kind # "Err"
        /\ pc = "done" =>
              /\ ret.kind = "Ok"
              /\ ConcatTxns(written) = records
              /\ ConcatIds(written) = Sigs(records)

C1_Witness ==
    /\ mode = "generate" /\ WellFormed /\ max_batch_size = 2 /\ NumTxns = 3
    /\ pc = "done" /\ ret.kind = "Ok" /\ Len(written) = 2
    /\ records[1] # records[2]

(***************************************************************************)
(* C2  Size partition law of next_batch.                                   *)
(***************************************************************************)
\* C2: on a well-formed input of n transactions and max_batch_size m >= 1,
\* the calls of next_batch return Ok(Some) exactly ceil(n/m) times and
\* Ok(None) from then on; every batch but the last holds m transactions and
\* the last holds n mod m if that is nonzero, else m.
C2_SizePartition ==
    (mode = "producer" /\ WellFormed /\ max_batch_size >= 1) =>
        LET count == CeilDiv(NumTxns, max_batch_size)
            rest  == NumTxns % max_batch_size
        IN /\ \A i \in 1..Len(log) :
                 log[i] = IF i <= count THEN "Some" ELSE "None"
           /\ Len(emitted) = Min(Len(log), count)
           /\ \A i \in 1..Len(emitted) :
                 Len(emitted[i].transactions) =
                    IF i < count \/ rest = 0 THEN max_batch_size ELSE rest

C2_Witness ==
    /\ mode = "producer" /\ WellFormed /\ max_batch_size = 2 /\ NumTxns = 3
    /\ log = <<"Some", "Some", "None">>
    /\ Len(emitted[1].transactions) = 2 /\ Len(emitted[2].transactions) = 1

(***************************************************************************)
(* C3  A batch holds between 1 and max_batch_size transactions.            *)
(***************************************************************************)
SizeInBounds(batch) ==
    /\ Len(batch.transactions) >= 1
    /\ Len(batch.transactions) <= max_batch_size

\* C3: every batch returned as Ok(Some(batch)) by next_batch and every batch
\* written by generate_signed_batches holds at least 1 and at most
\* max_batch_size transactions, whatever the input and max_batch_size.
C3_BatchSizeBounds ==
    /\ \A i \in 1..Len(emitted) : SizeInBounds(emitted[i])
    /\ \A i \in 1..Len(written) : SizeInBounds(written[i])
    /\ res.kind = "Some" => SizeInBounds(res.batch)
    /\ Len(emitted) = Cardinality({i \in 1..Len(log) : log[i] = "Some"})

C3_Witness ==
    /\ mode = "generate" /\ max_batch_size = 2
    /\ Len(written) = 2
    /\ Len(written[1].transactions) = 2 /\ Len(written[2].transactions) = 1
    /\ pc = "done"

(***************************************************************************)
(* C4  transaction_ids[i] is the header_signature of transactions[i].      *)
(***************************************************************************)
\* transactions in the batches emitted before the j-th
RECURSIVE Offset(_)
Offset(j) == IF j <= 1 THEN 0 ELSE Offset(j - 1) + Len(emitted[j - 1].transactions)

\* C4: in every batch produced by next_batch the header decodes to a
\* transaction_ids list as long as the transaction list, transaction_ids[i]
\* is the header_signature of transactions[i], and (while no call has
\* failed) that is the header_signature of the input record the
\* transaction was read from.
C4_HeaderIdsMatch ==
    \A j \in 1..Len(emitted) :
        LET batch == emitted[j]
            header == ParseBatchHeader(batch.header)
        IN /\ header.ok
           /\ Len(header.msg.transaction_ids) = Len(batch.transactions)
           /\ \A i \in 1..Len(batch.transactions) :
                 /\ header.msg.transaction_ids[i] = batch.transactions[i].header_signature
                 /\ (\A c \in 1..Len(log) : log[c] # "Err") =>
                       header.msg.transaction_ids[i] =
                          records[Offset(j) + i].header_signature

C4_Witness ==
    /\ mode = "producer" /\ Len(emitted) = 2
    /\ Len(emitted[1].transactions) = 2
    /\ HeaderIds(emitted[1]) = <<<<98>>, <<97>>>>
    /\ HeaderIds(emitted[2]) = <<<<>>>>

(***************************************************************************)
(* C5  next(k) returns the next min(k, r) unread records.                  *)
(***************************************************************************)
\* C5: on a well-formed source with r records unread, next(k) returns Ok
\* with the next min(k, r) records in source order and leaves r - min(k, r)
\* unread; all that the calls so far returned is, in order and without
\* repetition, the records read so far.
C5_BoundedPull ==
    (mode = "source" /\ WellFormed /\ calls >= 1) =>
        LET k == last_next.max_msgs
            r == Unread(last_next.before)
            first == NumTxns - r
        IN /\ last_next.ok
           /\ last_next.msgs = SubSeq(records, first + 1, first + Min(k, r))
           /\ Unread(pos) = r - Min(k, r)
           /\ delivered = SubSeq(records, 1, NumTxns - Unread(pos))
           /\ pos = Len(EncodeStream(delivered))

C5_Witness ==
    /\ mode = "source" /\ WellFormed /\ NumTxns = 3 /\ calls = 2
    /\ last_next.max_msgs = 2 /\ last_next.before > 0
    /\ Len(last_next.msgs) = 1 /\ Len(delivered) = 3

C5_WitnessEmpty ==
    /\ mode = "source" /\ input = <<>> /\ calls = 1
    /\ last_next.max_msgs = 2 /\ last_next.ok /\ last_next.msgs = <<>>

(***************************************************************************)
(* C6  An empty result is the sole signal of exhaustion.                   *)
(***************************************************************************)
\* C6: a call next(max_count), max_count >= 0, returns Ok(empty sequence)
\* if and only if the source had no unread record when the call began; and
\* whenever next_batch (max_batch_size >= 1) returns Ok(None), the whole
\* input has been consumed.  Stated of well-formed inputs.
C6_EmptyIffExhausted ==
    /\ (mode = "source" /\ WellFormed /\ calls >= 1) =>
          ((last_next.ok /\ last_next.msgs = <<>>) <=> Unread(last_next.before) = 0)
    /\ (mode = "producer" /\ WellFormed /\ max_batch_size >= 1 /\ res.kind = "None") =>
          Unread(pos) = 0

(***************************************************************************)
(* C7  Exhaustion is absorbing.                                            *)
(***************************************************************************)
\* C7: once a call of next_batch has returned Ok(None), every later call on
\* the same producer returns Ok(None): neither Ok(Some(batch)) nor an error
\* follows an Ok(None).
C7_ExhaustionAbsorbing ==
    \A i \in 1..Len(log) : \A j \in 1..Len(log) :
        (i < j /\ log[i] = "None") => log[j] = "None"

C7_Witness ==
    /\ mode = "producer" /\ max_batch_size >= 1
    /\ Len(log) >= 3
    /\ log[1] = "Some"
    /\ log[Len(log) - 1] = "None" /\ log[Len(log)] = "None"

(***************************************************************************)
(* C8  A truncated record k aborts the run after floor((k-1)/m) batches.   *)
(***************************************************************************)
\* what C8 says of a finished run over NumTxns well-formed records followed
\* by a truncated one (k = NumTxns + 1)
TruncatedOutcome ==
    LET full == NumTxns \div max_batch_size IN
    /\ ret = [kind |-> "Err", err |-> MessageError("UnexpectedEof")]
    /\ Len(written) = full
    /\ \A i \in 1..Len(written) : Len(written[i].transactions) = max_batch_size
    /\ ConcatTxns(written) = SubSeq(records, 1, max_batch_size * full)
    /\ writer = EncodeBatches(written)

\* C8 as stated: if records 1..k-1 are well formed and record k declares
\* more bytes than remain, then for every m >= 1 generate_signed_batches
\* returns Err(MessageError), the writer holds exactly the floor((k-1)/m)
\* full batches of the first m*floor((k-1)/m) transactions, and nothing of
\* the failing pull is written.
C8_Original ==
    (mode = "generate" /\ tail \in TruncatedTails /\ max_batch_size >= 1) =>
        /\ ret.kind # "Ok"
        /\ pc = "done" => TruncatedOutcome

\* C8 amended: the same, provided no write to the writer fails.
C8_TruncatedRecord ==
    (mode = "generate" /\ tail \in TruncatedTails /\ max_batch_size >= 1
        /\ WritesSucceeded) =>
        /\ ret.kind # "Ok"
        /\ pc = "done" => TruncatedOutcome

C8_Witness ==
    /\ mode = "generate" /\ tail \in TruncatedTails /\ WritesSucceeded
    /\ max_batch_size = 2 /\ NumTxns = 3
    /\ pc = "done" /\ ret.kind = "Err" /\ Len(written) = 1
    /\ pos = Len(input)

(***************************************************************************)
(* C9  generate_signed_batches is fail-fast.                               *)
(***************************************************************************)
\* a call of next_batch has returned an error
ErrorSeen == \E i \in 1..Len(log) : log[i] = "Err"

\* C9: once next_batch has returned an error, the driver makes no further
\* next_batch call and no further write, and its next step returns that
\* same error.
C9_FailFast ==
    [][(mode = "generate" /\ ErrorSeen) =>
          /\ calls' = calls
          /\ writes' = writes
          /\ writer' = writer
          /\ written' = written
          /\ pc' = "done"
          /\ ret' = [kind |-> "Err", err |-> res.err]]_vars

C9_Witness ==
    /\ mode = "generate" /\ ErrorSeen
    /\ pc = "done" /\ ret.kind = "Err"
    /\ Len(written) >= 1 /\ ~Eof(input, pos)

(***************************************************************************)
(* C10  The writer is append-only.                                         *)
(***************************************************************************)
\* C10: in every step of generate_signed_batches, the step that returns an
\* error included, the writer's contents before the step are a prefix of
\* its contents after it.
C10_AppendOnly ==
    [][mode = "generate" => IsPrefix(writer, writer')]_vars

C10_Witness ==
    /\ mode = "generate" /\ pc = "done" /\ ret.kind = "Err"
    /\ Len(written) >= 1
    /\ Len(writer) > Len(EncodeBatches(written))


(***************************************************************************)
(* C11  The writer's bytes decode to the batches produced.                 *)
(***************************************************************************)
\* reading `count` batches and then one more from the bytes b, as
\* tests::generate_signed_batches reads the output back, gives `batches`
\* and then an empty result
DecodesTo(b, batches) ==
    LET r == next_batches(b, 0, Len(batches)) IN
    /\ r.ok
    /\ r.msgs = batches
    /\ next_batches(b, r.pos, 1) =
          [ok |-> TRUE, msgs |-> <<>>, pos |-> Len(b), cause |-> ""]

\* C11 as stated: when generate_signed_batches has returned, decoding the
\* writer's bytes with the length-delimited reader for Batch yields, in
\* order, exactly the batches next_batch produced, then an empty result.
C11_Original ==
    (mode = "generate" /\ pc = "done") => DecodesTo(writer, emitted)

\* C11 amended: the same, provided no write to the writer fails; it also
\* holds between the iterations of the loop.
C11_RoundTrip ==
    (mode = "generate" /\ pc \in {"call", "done"} /\ WritesSucceeded) =>
        DecodesTo(writer, emitted)

C11_Witness ==
    /\ mode = "generate" /\ pc = "done" /\ WritesSucceeded
    /\ max_batch_size = 2 /\ NumTxns = 3
    /\ Len(emitted) = 2
    /\ HeaderIds(next_batches(writer, 0, 1).msgs[1]) = <<<<97>>, <<98>>>>
    /\ next_batches(writer, 0, 2).msgs[2].transactions = <<DefaultTxn>>

(***************************************************************************)
(* C12  BatchingError::SigningError is never produced.                     *)
(***************************************************************************)
\* C12: every error next_batch returns and every error
\* generate_signed_batches returns is a MessageError wrapping the failure
\* of the read, the decoding or the write, over every input and every
\* behaviour of the writer; no result other than an error carries one.
C12_OnlyMessageError ==
    /\ res.kind = "Err" <=> res.err.variant = "MessageError"
    /\ res.kind = "Err" => res.err.cause \in {"UnexpectedEof", "WireError"}
    /\ ret.kind = "Err" <=> ret.err.variant = "MessageError"
    /\ ret.kind = "Err" => ret.err.cause \in {"UnexpectedEof", "WireError", "IoError"}
    /\ res.err.variant # "SigningError" /\ ret.err.variant # "SigningError"

C12_Witness ==
    /\ mode = "generate" /\ pc = "done" /\ tail = <<1, 15>>
    /\ write_fail_at = 0
    /\ ret = [kind |-> "Err", err |-> MessageError("WireError")]
    /\ Len(written) >= 1

InputTxns ==
    {records[i] : i \in 1..NumTxns}
        \cup (IF tail = <<1, 15, 0>> THEN {DefaultTxn} ELSE {})

\* C14: every transaction stored in an emitted batch is a transaction read
\* from the input with its header, header_signature and payload unchanged;
\* while no call has failed, the i-th transaction of the j-th batch is the
\* input record at that place.  Taking the header signatures for the header
\* clears nothing in the batch.
C14_Verbatim ==
    \A j \in 1..Len(emitted) : \A i \in 1..Len(emitted[j].transactions) :
        /\ emitted[j].transactions[i] \in InputTxns
        /\ ~ErrorSeen => emitted[j].transactions[i] = records[Offset(j) + i]

C14_Witness ==
    /\ mode = "producer" /\ Len(emitted) = 2
    /\ emitted[1].transactions = <<make_txn(<<97>>), Txn(<<>>, <<98>>, <<>>)>>
    /\ emitted[2].transactions = <<make_txn(<<97>>)>>
    /\ HeaderIds(emitted[1]) = <<<<97>>, <<98>>>>

(***************************************************************************)
(* C15  The producer holds no transaction back.                            *)
(***************************************************************************)
\* transactions decoded from the input up to position p: the well-formed
\* records before p and, at the end of the tail <<1, 15, 0>>, its empty record
ConsumedTxns(p) ==
    RecordsBefore(p) + (IF tail = <<1, 15, 0>> /\ p = Len(input) THEN 1 ELSE 0)

\* C15 as stated: after every next_batch call that returns Ok(Some) or
\* Ok(None), the number of transactions consumed from the source so far is
\* the number of transactions in the batches returned so far.
C15_Original ==
    (mode \in {"generate", "producer"} /\ res.kind \in {"Some", "None"}) =>
        ConsumedTxns(pos) = Len(ConcatTxns(emitted))

\* C15 amended: the same, provided no earlier call of next_batch returned
\* an error (a failing call consumes transactions and returns none of
\* them); the batches then hold exactly the records consumed, in order, and
\* the source stands right after the last of them.
C15_NothingBuffered ==
    (mode \in {"generate", "producer"} /\ res.kind \in {"Some", "None"}
        /\ ~ErrorSeen) =>
        /\ ConsumedTxns(pos) = Len(ConcatTxns(emitted))
        /\ ConcatTxns(emitted) = SubSeq(records, 1, RecordsBefore(pos))
        /\ pos = Len(EncodeStream(ConcatTxns(emitted)))

C15_Witness ==
    /\ mode = "producer" /\ ~ErrorSeen /\ res.kind = "Some"
    /\ max_batch_size = 2 /\ NumTxns = 3 /\ tail \in TruncatedTails
    /\ Len(emitted) = 1 /\ ConsumedTxns(pos) = 2

(***************************************************************************)
(* C16  generate_signed_batches terminates.                                *)
(***************************************************************************)
\* The driver can take a step: it is about to call next_batch, or it holds
\* a BatchResult, and each of the three arms of the match is a step.
StepPossible ==
    \/ pc = "call"
    \/ pc = "match" /\ res.kind \in {"Some", "None", "Err"}

\* A bound on the steps the driver has left: three for every byte
\* still unread, and up to three for where the loop stands.  A batch in hand
\* (still to be written) counts more than the call that follows its write.
Variant ==
    3 * (Len(input) - pos)
        + (CASE pc = "done" -> 0
             [] pc = "call" -> 2
             [] pc = "match" -> IF res.kind = "Some" THEN 3 ELSE 1)

\* what C16 says of a run over a well-formed input once it has returned
ReturnedAfterAllBatches ==
    /\ ret.kind = "Ok"
    /\ calls = CeilDiv(NumTxns, max_batch_size) + 1
    /\ Len(log) = calls
    /\ log[calls] = "None"
    /\ \A i \in 1..(calls - 1) : log[i] = "Some"

\* C16 as stated: for every max_batch_size >= 1 and every finite input
\* generate_signed_batches eventually returns (until it has returned it can
\* take a step, and every step lowers Variant, which is never negative); on
\* a well-formed input of n transactions it returns Ok(()) after exactly
\* ceil(n/m) + 1 calls of next_batch, the last of which returns Ok(None).
C16_Original ==
    /\ [][(mode = "generate" /\ max_batch_size >= 1) => Variant' < Variant]_vars
    /\ []((mode = "generate" /\ max_batch_size >= 1) =>
             /\ Variant >= 0
             /\ pc # "done" => StepPossible
             /\ pc = "done" <=> ret.kind # "Running"
             /\ (WellFormed /\ pc = "done") => ReturnedAfterAllBatches)

\* C16 amended: it always returns; on a well-formed input, provided no
\* write to the writer fails, it returns Ok(()) after exactly ceil(n/m) + 1
\* calls of next_batch, the last of which returns Ok(None).
C16_Terminates ==
    /\ [][(mode = "generate" /\ max_batch_size >= 1) => Variant' < Variant]_vars
    /\ []((mode = "generate" /\ max_batch_size >= 1) =>
             /\ Variant >= 0
             /\ pc # "done" => StepPossible
             /\ pc = "done" <=> ret.kind # "Running"
             /\ (WellFormed /\ WritesSucceeded /\ pc = "done") =>
                   ReturnedAfterAllBatches)

C16_Witness ==
    /\ mode = "generate" /\ WellFormed /\ WritesSucceeded
    /\ max_batch_size = 2 /\ NumTxns = 3
    /\ pc = "done" /\ ret.kind = "Ok" /\ calls = 3
    /\ log = <<"Some", "Some", "None">>

(***************************************************************************)
(* C17  A failing write ends the run.                                      *)
(***************************************************************************)
\* the write that fails has been attempted
WriteFailed == write_fail_at >= 1 /\ writes >= write_fail_at

\* C17: if the write of the j-th batch fails, generate_signed_batches
\* returns Err(MessageError) wrapping the write error without another
\* next_batch call; batches 1..j-1 are still in the writer, they are the
\* only complete batches it holds, and they cover the input transactions
\* before those of batch j.
C17_WriteFailure ==
    (mode = "generate" /\ WriteFailed) =>
        LET j == write_fail_at
            r == next_batches(writer, 0, j - 1)
        IN /\ pc = "done"
           /\ ret = [kind |-> "Err", err |-> MessageError("IoError")]
           /\ writes = j /\ calls = j /\ Len(emitted) = j
           /\ written = SubSeq(emitted, 1, j - 1)
           /\ IsPrefix(EncodeBatches(written), writer)
           /\ Len(writer) < Len(EncodeBatches(emitted))
           /\ r.ok /\ r.msgs = written
           /\ LET more == next_batches(writer, r.pos, 1) IN
                 ~more.ok \/ more.msgs = <<>>
           /\ ConcatTxns(written) = SubSeq(records, 1, Offset(j))

C17_Witness ==
    /\ mode = "generate" /\ WriteFailed /\ write_fail_at = 2
    /\ max_batch_size = 1 /\ NumTxns = 3
    /\ pc = "done" /\ Len(written) = 1
    /\ Len(writer) > Len(EncodeBatches(written))
    /\ ~next_batches(writer, 0, 2).ok
=============================================================================
